---- MODULE Spec2Model ----
(***************************************************************************)
(* Model of the browser extension background script                        *)
(* (browser_extension/background.js): two event listeners registered with  *)
(* the host browser and the async function sendToCleanMaster that relays   *)
(* {type, url, filename} to the companion application by HTTP POST.        *)
(*                                                                         *)
(* JavaScript strings are modelled as sequences of one-character strings,  *)
(* so that split('/'), pop() and JSON.stringify are computed character by  *)
(* character.  The script runs on a single-threaded event loop: a listener *)
(* runs to completion (up to the first await of the async function it      *)
(* calls), and the continuation after `await fetch` runs in the microtask  *)
(* checkpoint of the task that settles the fetch promise.                  *)
(***************************************************************************)
EXTENDS Naturals, Sequences, FiniteSets

VARIABLES
    calls,      \* listener invocations that have returned to the host, in order
    tasks,      \* invocations of sendToCleanMaster (one notification each)
    fetches,    \* calls of fetch(), in order
    console     \* entries written with console.error, in order

vars == <<calls, tasks, fetches, console>>

(***************************************************************************)
(* Bounds of the model.                                                    *)
(***************************************************************************)
\* number of events the host delivers in one run
MaxEvents == 2
\* length of the generated part of a url in SpecExtract
MaxUrlLen == 3

(***************************************************************************)
(* String constants.                                                       *)
(***************************************************************************)
UrlReport == <<"h","t","t","p","s",":","/","/","e","x","a","m","p","l","e",".","c","o","m","/","f","i","l","e","s","/","r","e","p","o","r","t",".","p","d","f">>
UrlRoot == <<"h","t","t","p","s",":","/","/","e","x","a","m","p","l","e",".","c","o","m","/">>
UrlUrn == <<"u","r","n",":","a">>
NameReport == <<"r","e","p","o","r","t",".","p","d","f">>
NameReportCopy == <<"r","e","p","o","r","t"," ","(","1",")",".","p","d","f">>
NameQuoted == <<"a","\"","b","\\","c",".","t","x","t">>

KeyType == <<"t","y","p","e">>
KeyUrl == <<"u","r","l">>
KeyFilename == <<"f","i","l","e","n","a","m","e">>
ValDownload == <<"d","o","w","n","l","o","a","d">>

\* the value of a function that falls off its end without a return statement
Undefined == "undefined"

(***************************************************************************)
(* String.prototype.split with a one-character separator, Array.pop.       *)
(***************************************************************************)
RECURSIVE SplitFrom(_, _, _, _, _)
\* the scan of s.split(sep) from position i: done are the segments closed so
\* far, cur the segment being read
SplitFrom(s, sep, i, done, cur) ==
    IF i > Len(s) THEN Append(done, cur)
    ELSE IF s[i] = sep THEN SplitFrom(s, sep, i + 1, Append(done, cur), <<>>)
    ELSE SplitFrom(s, sep, i + 1, done, Append(cur, s[i]))

\* a split on the wrong character, '.' in place of the separator asked for
SplitOnDot(s, sep) == SplitFrom(s, ".", 1, <<>>, <<>>)

\* s.split(sep): the segments of s between occurrences of sep; "" gives [""]
Split(s, sep) == SplitFrom(s, sep, 1, <<>>, <<>>)

\* arr.pop(): the last element of a non-empty array
Pop(arr) == arr[Len(arr)]

\* a plausible slip: the first segment instead of the last
ExtractFirstSegment(url) == Split(url, "/")[1]

\* const filename = url.split('/').pop();
ExtractFilename(url) == Pop(Split(url, "/"))

(***************************************************************************)
(* JSON.stringify of {type, url, filename} with string values.             *)
(***************************************************************************)
\* JSON string escaping of one character (quotation mark and reverse solidus)
EscapeChar(c) ==
    IF c = "\"" THEN <<"\\", "\"">>
    ELSE IF c = "\\" THEN <<"\\", "\\">>
    ELSE <<c>>

RECURSIVE Quote(_)
\* the characters of s, escaped, without the surrounding quotation marks
Quote(s) == IF s = <<>> THEN <<>> ELSE EscapeChar(Head(s)) \o Quote(Tail(s))

\* "s" as a JSON string literal
JSONString(s) == <<"\"">> \o Quote(s) \o <<"\"">>

\* "key":"value"
JSONMember(key, value) == JSONString(key) \o <<":">> \o JSONString(value)

\* JSON.stringify({type: 'download', url: url, filename: filename})
JSONStringify(url, filename) ==
    <<"{">> \o JSONMember(KeyType, ValDownload)
    \o <<",">> \o JSONMember(KeyUrl, url)
    \o <<",">> \o JSONMember(KeyFilename, filename)
    \o <<"}">>

(***************************************************************************)
(* sendToCleanMaster(url, filename), up to its first await.                *)
(***************************************************************************)
\* first argument of fetch
Endpoint == "http://localhost:8080"

\* a body with the two arguments in each other's place
RequestInitSwapped(url, filename) ==
    [ method      |-> "POST",
      ContentType |-> "application/json",
      body        |-> JSONStringify(filename, url) ]

\* second argument of fetch: method, headers, body
RequestInit(url, filename) ==
    [ method      |-> "POST",
      ContentType |-> "application/json",
      body        |-> JSONStringify(url, filename) ]

\* the fetch call as the host sees it; its promise is pending
FetchCall(task, input, init) ==
    [ task |-> task, input |-> input, init |-> init,
      result |-> "pending", status |-> 0 ]

\* a sender that waits for the outcome before it returns to its caller
sendToCleanMasterBlocking(url, filename, caller) ==
    /\ tasks' = Append(tasks, [ call |-> caller, url |-> url, filename |-> filename,
                                pc |-> "done", promise |-> "fulfilled",
                                outcome |-> "caught" ])
    /\ fetches' = Append(fetches,
                         [ FetchCall(Len(tasks) + 1, Endpoint, RequestInit(url, filename))
                             EXCEPT !.result = "error" ])

\* a sender with memory: once a transmission has failed it sends the name
\* of the first failed notification again in place of its own
sendToCleanMasterSticky(url, filename, caller) ==
    LET failed == {t \in 1..Len(tasks) : tasks[t].outcome \in {"not_ok", "caught"}}
        name == IF failed = {} THEN filename
                ELSE tasks[CHOOSE t \in failed : \A u \in failed : t <= u].filename
    IN  /\ tasks' = Append(tasks, [ call |-> caller, url |-> url, filename |-> name,
                                    pc |-> "await_fetch", promise |-> "pending",
                                    outcome |-> "none" ])
        /\ fetches' = Append(fetches,
                             FetchCall(Len(tasks) + 1, Endpoint, RequestInit(url, name)))

\* sendToCleanMaster(url, filename) called from listener invocation `caller`:
\* runs synchronously to `await fetch(...)`, suspends there and hands a
\* pending promise back to the caller.
sendToCleanMaster(url, filename, caller) ==
    /\ tasks' = Append(tasks, [ call |-> caller, url |-> url, filename |-> filename,
                                pc |-> "await_fetch", promise |-> "pending",
                                outcome |-> "none" ])
    /\ fetches' = Append(fetches,
                         FetchCall(Len(tasks) + 1, Endpoint, RequestInit(url, filename)))

(***************************************************************************)
(* The listeners.                                                          *)
(***************************************************************************)
\* a filter that lets every classification through
AllowAnyType(type) == TRUE

\* details.type === 'xmlhttprequest' || details.type === 'main_frame'
AllowedType(type) == type = "xmlhttprequest" \/ type = "main_frame"

\* what the host records when a listener returns: the listener, its event,
\* the value returned, the calls of suggest made, and the promises of the
\* sendToCleanMaster invocations it started as they are at the return
Returned(listener, event, value, suggestCalls, started, ts) ==
    [ listener  |-> listener,
      event     |-> event,
      returned  |-> value,
      suggested |-> suggestCalls,
      started   |-> [k \in 1..Len(started) |->
                        [ task |-> started[k], promise |-> ts[started[k]].promise ]] ]

\* a blocking listener that cancels the request
ReturnCancel == "{cancel: true}"

\* the value the onBeforeRequest listener returns: its body has no return
\* statement
OnBeforeRequestReturn == Undefined

\* chrome.webRequest.onBeforeRequest listener
OnBeforeRequest(details) ==
    /\ IF AllowedType(details.type)
       THEN LET url == details.url
                filename == ExtractFilename(url)
            IN  sendToCleanMaster(url, filename, Len(calls) + 1)
       ELSE UNCHANGED <<tasks, fetches>>
    /\ calls' = Append(calls,
                       Returned("onBeforeRequest", details, OnBeforeRequestReturn, <<>>,
                                IF AllowedType(details.type)
                                THEN <<Len(tasks) + 1>> ELSE <<>>,
                                tasks'))
    /\ UNCHANGED console

\* a listener that derives the name from the url, as the other listener does
OnDeterminingFilenameFromUrl(downloadItem) ==
    /\ sendToCleanMaster(downloadItem.url, ExtractFilename(downloadItem.url),
                         Len(calls) + 1)
    /\ calls' = Append(calls,
                       Returned("onDeterminingFilename", downloadItem, Undefined, <<>>,
                                <<Len(tasks) + 1>>, tasks'))
    /\ UNCHANGED console

\* a listener that skips a download whose url has been relayed already
OnDeterminingFilenameDedup(downloadItem) ==
    /\ IF \E t \in 1..Len(tasks) : tasks[t].url = downloadItem.url
       THEN UNCHANGED <<tasks, fetches>>
       ELSE sendToCleanMaster(downloadItem.url, downloadItem.filename, Len(calls) + 1)
    /\ calls' = Append(calls,
                       Returned("onDeterminingFilename", downloadItem, Undefined, <<>>,
                                IF \E t \in 1..Len(tasks) : tasks[t].url = downloadItem.url
                                THEN <<>> ELSE <<Len(tasks) + 1>>,
                                tasks'))
    /\ UNCHANGED console

\* a listener that overrides the host's suggestion with the name it was given
SuggestOverride(downloadItem) == << [filename |-> downloadItem.filename] >>

\* the calls of suggest the onDeterminingFilename listener makes: its body
\* never uses the parameter
SuggestCalls(downloadItem) == <<>>

\* chrome.downloads.onDeterminingFilename listener
OnDeterminingFilename(downloadItem) ==
    /\ sendToCleanMaster(downloadItem.url, downloadItem.filename, Len(calls) + 1)
    /\ calls' = Append(calls,
                       Returned("onDeterminingFilename", downloadItem, Undefined,
                                SuggestCalls(downloadItem),
                                <<Len(tasks) + 1>>, tasks'))
    /\ UNCHANGED console

(***************************************************************************)
(* Settlement of a fetch and the continuation of sendToCleanMaster.        *)
(***************************************************************************)
\* a test that takes every status from 200 up for a success
ResponseOkLoose(status) == status >= 200

\* response.ok: the status is in the range 200-299
ResponseOk(status) == status >= 200 /\ status <= 299

\* console.error('...') after a response that is not ok
LogNotOk(task) == [ task |-> task, message |-> "send error", error |-> FALSE ]

\* console.error('...:', error) in the catch block
LogCaught(task) == [ task |-> task, message |-> "send error:", error |-> TRUE ]

\* responses delivered through a queue: a fetch is answered only after every
\* earlier one has been settled
FetchRespondsInOrder(i, status) ==
    /\ i \in 1..Len(fetches)
    /\ fetches[i].result = "pending"
    /\ \A j \in 1..(i - 1) : fetches[j].result # "pending"
    /\ fetches' = [fetches EXCEPT ![i].result = "response", ![i].status = status]
    /\ console' = IF ResponseOk(status) THEN console
                  ELSE Append(console, LogNotOk(fetches[i].task))
    /\ tasks' = [tasks EXCEPT ![fetches[i].task] =
                    [@ EXCEPT !.pc = "done", !.promise = "fulfilled",
                              !.outcome = IF ResponseOk(status) THEN "ok" ELSE "not_ok"]]
    /\ UNCHANGED calls

\* the fetch promise of fetches[i] fulfils with a response of the given
\* status; the continuation tests response.ok and the async function returns
FetchResponds(i, status) ==
    /\ i \in 1..Len(fetches)
    /\ fetches[i].result = "pending"
    /\ fetches' = [fetches EXCEPT ![i].result = "response", ![i].status = status]
    /\ console' = IF ResponseOk(status) THEN console
                  ELSE Append(console, LogNotOk(fetches[i].task))
    /\ tasks' = [tasks EXCEPT ![fetches[i].task] =
                    [@ EXCEPT !.pc = "done", !.promise = "fulfilled",
                              !.outcome = IF ResponseOk(status) THEN "ok" ELSE "not_ok"]]
    /\ UNCHANGED calls

\* no catch block: the rejection of fetch rejects the promise of the task
FetchFailsUncaught(i) ==
    /\ i \in 1..Len(fetches)
    /\ fetches[i].result = "pending"
    /\ fetches' = [fetches EXCEPT ![i].result = "error"]
    /\ tasks' = [tasks EXCEPT ![fetches[i].task] =
                    [@ EXCEPT !.pc = "done", !.promise = "rejected",
                              !.outcome = "thrown"]]
    /\ UNCHANGED <<calls, console>>

\* a catch block that sends the notification once more
FetchFailsRetry(i) ==
    /\ i \in 1..Len(fetches)
    /\ fetches[i].result = "pending"
    /\ console' = Append(console, LogCaught(fetches[i].task))
    /\ IF Cardinality({j \in 1..Len(fetches) : fetches[j].task = fetches[i].task}) = 1
       THEN /\ fetches' = Append([fetches EXCEPT ![i].result = "error"],
                                 FetchCall(fetches[i].task, fetches[i].input,
                                           fetches[i].init))
            /\ UNCHANGED tasks
       ELSE /\ fetches' = [fetches EXCEPT ![i].result = "error"]
            /\ tasks' = [tasks EXCEPT ![fetches[i].task] =
                            [@ EXCEPT !.pc = "done", !.promise = "fulfilled",
                                      !.outcome = "caught"]]
    /\ UNCHANGED calls

\* a transport failure after which the suspended function is never resumed
FetchFailsHang(i) ==
    /\ i \in 1..Len(fetches)
    /\ fetches[i].result = "pending"
    /\ fetches' = [fetches EXCEPT ![i].result = "error"]
    /\ UNCHANGED <<calls, tasks, console>>

\* the fetch promise of fetches[i] rejects (transport failure); the catch
\* block logs the error and the async function returns
FetchFails(i) ==
    /\ i \in 1..Len(fetches)
    /\ fetches[i].result = "pending"
    /\ fetches' = [fetches EXCEPT ![i].result = "error"]
    /\ console' = Append(console, LogCaught(fetches[i].task))
    /\ tasks' = [tasks EXCEPT ![fetches[i].task] =
                    [@ EXCEPT !.pc = "done", !.promise = "fulfilled",
                              !.outcome = "caught"]]
    /\ UNCHANGED calls

(***************************************************************************)
(* Events the host delivers, and the specification.                        *)
(***************************************************************************)
RequestTypes == {"xmlhttprequest", "main_frame", "image"}

RequestUrls == {UrlReport, UrlRoot}

RequestEvents == [type : RequestTypes, url : RequestUrls]

DownloadItems ==
    { [url |-> UrlReport, filename |-> NameReport],
      [url |-> UrlReport, filename |-> NameReportCopy],
      [url |-> UrlRoot,   filename |-> NameQuoted] }

Statuses == {200, 404}

Init ==
    /\ calls = <<>>
    /\ tasks = <<>>
    /\ fetches = <<>>
    /\ console = <<>>

Next ==
    \/ \E details \in RequestEvents :
          Len(calls) < MaxEvents /\ OnBeforeRequest(details)
    \/ \E downloadItem \in DownloadItems :
          Len(calls) < MaxEvents /\ OnDeterminingFilename(downloadItem)
    \/ \E i \in 1..Len(fetches), status \in Statuses : FetchResponds(i, status)
    \/ \E i \in 1..Len(fetches) : FetchFails(i)

Spec == Init /\ [][Next]_vars

(***************************************************************************)
(* The url extraction on generated urls: one request event whose url is    *)
(* the example origin followed by any string over PathChars of length at   *)
(* most MaxUrlLen, or one of the fixed urls.                               *)
(***************************************************************************)
PathChars == {"/", "a", "."}

GeneratedUrls ==
    UNION { { UrlRoot \o rest : rest \in [1..n -> PathChars] } : n \in 0..MaxUrlLen }

ExtractEvents == [type : RequestTypes, url : GeneratedUrls \cup {UrlReport, UrlUrn}]

NextExtract ==
    \/ \E details \in ExtractEvents : calls = <<>> /\ OnBeforeRequest(details)
    \/ \E i \in 1..Len(fetches), status \in Statuses : FetchResponds(i, status)
    \/ \E i \in 1..Len(fetches) : FetchFails(i)

SpecExtract == Init /\ [][NextExtract]_vars

(***************************************************************************)
(* The network eventually answers or fails every call of fetch.            *)
(***************************************************************************)
FetchSettles(i) == FetchFails(i) \/ \E status \in Statuses : FetchResponds(i, status)

LiveSpec == Spec /\ \A i \in 1..MaxEvents : WF_vars(FetchSettles(i))

(***************************************************************************)
(* Reading a request body back, as the receiving endpoint would.           *)
(***************************************************************************)
RECURSIVE ReadString(_, _, _)
\* the JSON string whose first character after the opening quotation mark is
\* s[i]: its value and the position after its closing quotation mark
ReadString(s, i, acc) ==
    IF i > Len(s) THEN [value |-> acc, next |-> i]
    ELSE IF s[i] = "\"" THEN [value |-> acc, next |-> i + 1]
    ELSE IF s[i] = "\\" /\ i < Len(s) THEN ReadString(s, i + 2, Append(acc, s[i + 1]))
    ELSE ReadString(s, i + 1, Append(acc, s[i]))

RECURSIVE ReadMembers(_, _, _)
\* the members "key":"value" of an object, from the opening quotation mark
\* of a key at s[i]
ReadMembers(s, i, acc) ==
    IF i > Len(s) \/ s[i] # "\"" THEN acc
    ELSE LET key == ReadString(s, i + 1, <<>>)
             val == ReadString(s, key.next + 2, <<>>)
             all == Append(acc, [key |-> key.value, value |-> val.value])
         IN  IF key.next + 1 > Len(s) \/ s[key.next] # ":" \/ s[key.next + 1] # "\""
             THEN acc
             ELSE IF val.next <= Len(s) /\ s[val.next] = ","
                  THEN ReadMembers(s, val.next + 1, all)
                  ELSE all

\* the members of the object a request body holds
JSONParse(body) ==
    IF Len(body) >= 2 /\ body[1] = "{" /\ body[Len(body)] = "}"
    THEN ReadMembers(body, 2, <<>>)
    ELSE <<>>

\* the notification a request body holds: its three members in order
Payload(body) ==
    LET m == JSONParse(body)
    IN  IF Len(m) = 3 /\ m[1].key = KeyType /\ m[2].key = KeyUrl /\ m[3].key = KeyFilename
        THEN [type |-> m[1].value, url |-> m[2].value, filename |-> m[3].value]
        ELSE [type |-> <<>>, url |-> <<>>, filename |-> <<>>]

\* the position of the last occurrence of c in s, 0 when there is none
LastIndexOf(s, c) ==
    LET hits == {i \in 1..Len(s) : s[i] = c}
    IN  IF hits = {} THEN 0 ELSE CHOOSE i \in hits : \A j \in hits : j <= i

\* the part of s after the last occurrence of c
AfterLast(s, c) == SubSeq(s, LastIndexOf(s, c) + 1, Len(s))

\* the calls of fetch made on behalf of listener invocation k
AttemptsOf(k) == {i \in 1..Len(fetches) : tasks[fetches[i].task].call = k}

\* Created, Sent, Acknowledged or Failed: where the notification of a task is
NotificationState(t) ==
    IF t.pc = "await_fetch" THEN "Sent"
    ELSE IF t.outcome = "ok" THEN "Acknowledged" ELSE "Failed"

\* a fetch that has ended in failure: a response that is not ok, or no response
FetchFailed(f) ==
    \/ f.result = "error"
    \/ f.result = "response" /\ ~(f.status >= 200 /\ f.status <= 299)

(***************************************************************************)
(* Claims.                                                                 *)
(***************************************************************************)

\* C1: every download-determination event that has been handled has exactly
\* one transmission attempt, and the url and filename that attempt carries
\* are the event's own url and filename, whatever happened to earlier
\* transmissions.
C1_DownloadEventSentOnceVerbatim ==
    \A k \in 1..Len(calls) :
        calls[k].listener = "onDeterminingFilename" =>
            /\ Cardinality(AttemptsOf(k)) = 1
            /\ \A i \in AttemptsOf(k) :
                  /\ Payload(fetches[i].init.body).url = calls[k].event.url
                  /\ Payload(fetches[i].init.body).filename = calls[k].event.filename

\* C1 witness: a download event with a name that needs escaping has been
\* handled after an earlier transmission failed.
C1_Witness ==
    /\ Len(calls) = 2
    /\ calls[2].listener = "onDeterminingFilename"
    /\ calls[2].event.filename = NameQuoted
    /\ Len(tasks) >= 1 /\ tasks[1].outcome = "caught"
    /\ AttemptsOf(2) # {}

\* C2: every request-observation event with an allowed classification that
\* has been handled has exactly one transmission attempt, carrying the
\* event's url and, as filename, the last path segment of that url.
C2_AllowedRequestSentOnce ==
    \A k \in 1..Len(calls) :
        (/\ calls[k].listener = "onBeforeRequest"
         /\ calls[k].event.type \in {"xmlhttprequest", "main_frame"}) =>
            /\ Cardinality(AttemptsOf(k)) = 1
            /\ \A i \in AttemptsOf(k) :
                  /\ Payload(fetches[i].init.body).url = calls[k].event.url
                  /\ Payload(fetches[i].init.body).filename
                        = AfterLast(calls[k].event.url, "/")

\* C2 witness: two allowed request events, one of each classification, have
\* been handled and the first was sent with the name report.pdf.
C2_Witness ==
    /\ Len(calls) = 2
    /\ calls[1].listener = "onBeforeRequest" /\ calls[1].event.type = "xmlhttprequest"
    /\ calls[2].listener = "onBeforeRequest" /\ calls[2].event.type = "main_frame"
    /\ calls[1].event.url = UrlReport
    /\ Len(fetches) = 2
    /\ Payload(fetches[1].init.body).filename = NameReport

\* C3: no listener alters the host's decision: every listener invocation
\* returned undefined (nothing that cancels, redirects or blocks a request,
\* nothing that makes the download wait) and made no call of suggest.
C3_HostDecisionUntouched ==
    \A k \in 1..Len(calls) :
        /\ calls[k].returned = "undefined"
        /\ calls[k].suggested = <<>>

\* C3 witness: both listeners have run, and the transmission of the first
\* has failed.
C3_Witness ==
    /\ Len(calls) = 2
    /\ calls[1].listener = "onBeforeRequest" /\ calls[1].event.type = "main_frame"
    /\ calls[2].listener = "onDeterminingFilename"
    /\ Len(fetches) = 2 /\ FetchFailed(fetches[1])

\* C4: a failed transmission raises nothing: the promise of sendToCleanMaster
\* is never rejected, it is fulfilled once its fetch has failed either way,
\* and the listener that started it has returned normally.
C4_FailureNeverPropagates ==
    /\ \A t \in 1..Len(tasks) : tasks[t].promise \in {"pending", "fulfilled"}
    /\ \A i \in 1..Len(fetches) :
          FetchFailed(fetches[i]) =>
              /\ tasks[fetches[i].task].promise = "fulfilled"
              /\ tasks[fetches[i].task].call \in 1..Len(calls)
              /\ calls[tasks[fetches[i].task].call].returned = "undefined"

\* C4 witness: one transmission was answered with a status that is not ok and
\* another failed at the transport level.
C4_Witness ==
    /\ Len(fetches) = 2
    /\ fetches[1].result = "response" /\ fetches[1].status = 404
    /\ fetches[2].result = "error"

\* C5: a listener returns without waiting for its transmission: at the
\* moment each listener returned, the promise of every sendToCleanMaster
\* invocation it had started was still pending.
C5_ReturnsBeforeOutcome ==
    \A k \in 1..Len(calls) :
        \A j \in 1..Len(calls[k].started) :
            calls[k].started[j].promise = "pending"

\* C5 witness: both listeners have returned; the transmission of one has
\* since failed at the transport level and the other is still unanswered.
C5_Witness ==
    /\ Len(calls) = 2
    /\ calls[1].listener = "onDeterminingFilename"
    /\ calls[2].listener = "onBeforeRequest"
    /\ Len(calls[1].started) = 1 /\ Len(calls[2].started) = 1
    /\ fetches[1].result = "error"
    /\ fetches[2].result = "pending"

\* C6: on the request-observation path the filename sent is the part of
\* the url after its last '/' (report.pdf for
\* https://example.com/files/report.pdf), and it is the empty string
\* whenever the url ends with '/'.
C6_FilenameIsLastSegment ==
    \A i \in 1..Len(fetches) :
        LET call == calls[tasks[fetches[i].task].call]
            url == call.event.url
            filename == Payload(fetches[i].init.body).filename
        IN  call.listener = "onBeforeRequest" =>
                /\ filename = AfterLast(url, "/")
                /\ (url # <<>> /\ url[Len(url)] = "/") => filename = <<>>
                /\ url = UrlReport => filename = NameReport

\* C6 witness: a generated url with several segments that ends with '/' has
\* been sent with the empty filename.
C6_Witness ==
    /\ Len(fetches) = 1
    /\ calls[1].listener = "onBeforeRequest"
    /\ Len(calls[1].event.url) = Len(UrlRoot) + MaxUrlLen
    /\ calls[1].event.url[Len(UrlRoot) + 1] = "a"
    /\ calls[1].event.url[Len(calls[1].event.url)] = "/"
    /\ Payload(fetches[1].init.body).filename = <<>>

\* C7: a step that handles a request-observation event whose classification
\* is neither xmlhttprequest nor main_frame starts no transmission: it
\* leaves the notifications and the fetch calls as they were.
C7_OtherTypesIgnored ==
    [][ (/\ Len(calls') = Len(calls) + 1
         /\ calls'[Len(calls')].listener = "onBeforeRequest"
         /\ calls'[Len(calls')].event.type \notin {"xmlhttprequest", "main_frame"})
        => (/\ tasks' = tasks
            /\ fetches' = fetches
            /\ calls'[Len(calls')].started = <<>>) ]_vars

\* C7 witness: an image request has been handled after a notification was
\* sent, and that notification is still the only one.
C7_Witness ==
    /\ Len(calls) = 2
    /\ calls[2].listener = "onBeforeRequest" /\ calls[2].event.type = "image"
    /\ Len(tasks) = 1 /\ Len(fetches) = 1
    /\ tasks[1].pc = "await_fetch"

\* an event that triggers a notification
Triggering(call) ==
    \/ call.listener = "onDeterminingFilename"
    \/ call.listener = "onBeforeRequest"
       /\ call.event.type \in {"xmlhttprequest", "main_frame"}

\* the attempts made are as many as the triggering events handled, one for
\* each notification
C8_Counts ==
    /\ Len(fetches) = Cardinality({k \in 1..Len(calls) : Triggering(calls[k])})
    /\ Len(tasks) = Len(fetches)
    /\ \A t \in 1..Len(tasks) :
          Cardinality({i \in 1..Len(fetches) : fetches[i].task = t}) = 1

\* notifications only move forward: a new one enters as Sent, none is
\* removed, and one that is Acknowledged or Failed never changes again, nor
\* does its fetch call
C8_Forward ==
    /\ Len(tasks') >= Len(tasks)
    /\ Len(fetches') >= Len(fetches)
    /\ \A t \in (Len(tasks) + 1)..Len(tasks') :
          NotificationState(tasks'[t]) = "Sent"
    /\ \A t \in 1..Len(tasks) :
          NotificationState(tasks[t]) \in {"Acknowledged", "Failed"} =>
              /\ tasks'[t] = tasks[t]
              /\ \A i \in 1..Len(fetches) :
                    fetches[i].task = t => fetches'[i] = fetches[i]

\* C8: there is no retry: in every state the transmission attempts are as
\* many as the triggering events handled so far, one per notification, and
\* in every step notifications only move forward from Sent to Acknowledged
\* or Failed, which are terminal (a Failed notification is never sent again).
C8_SingleAttemptForwardOnly == []C8_Counts /\ [][C8_Forward]_vars

\* C8 witness: of two notifications one is Acknowledged and the other
\* Failed, with two attempts made in all.
C8_Witness ==
    /\ Len(tasks) = 2 /\ Len(fetches) = 2
    /\ NotificationState(tasks[1]) = "Failed"
    /\ NotificationState(tasks[2]) = "Acknowledged"

\* C9: every call of fetch is a POST to http://localhost:8080 with
\* Content-Type application/json and a body holding exactly type =
\* 'download' and the url and filename passed to sendToCleanMaster.
C9_FixedEndpointAndBody ==
    \A i \in 1..Len(fetches) :
        /\ fetches[i].input = "http://localhost:8080"
        /\ fetches[i].init.method = "POST"
        /\ fetches[i].init.ContentType = "application/json"
        /\ Len(JSONParse(fetches[i].init.body)) = 3
        /\ Payload(fetches[i].init.body) =
              [ type     |-> <<"d","o","w","n","l","o","a","d">>,
                url      |-> tasks[fetches[i].task].url,
                filename |-> tasks[fetches[i].task].filename ]

\* C9 witness: one call of fetch from each event source, the download one
\* with a name that needs escaping.
C9_Witness ==
    /\ Len(fetches) = 2
    /\ calls[tasks[1].call].listener = "onBeforeRequest"
    /\ calls[tasks[2].call].listener = "onDeterminingFilename"
    /\ tasks[2].filename = NameQuoted

\* C10: when the network eventually answers or fails every call of fetch,
\* every notification that is Sent eventually is Acknowledged or Failed.
C10_SentLeadsToOutcome ==
    \A t \in 1..MaxEvents :
        (t <= Len(tasks) /\ NotificationState(tasks[t]) = "Sent")
            ~> (t <= Len(tasks)
                /\ NotificationState(tasks[t]) \in {"Acknowledged", "Failed"})

\* C10 witness: two notifications were Sent and both have reached an
\* outcome, one of them after a response that was not ok.
C10_Witness ==
    /\ Len(tasks) = 2
    /\ tasks[1].outcome = "ok"
    /\ tasks[2].outcome = "not_ok"

\* whatever else is in flight, every pending fetch can be answered with any
\* status or fail
C11_NoCoordination ==
    \A i \in 1..Len(fetches) :
        fetches[i].result = "pending" =>
            /\ ENABLED FetchFails(i)
            /\ \A status \in {200, 404} : ENABLED FetchResponds(i, status)

\* a step that handles a triggering event starts its transmission, pending,
\* whatever the earlier transmissions are doing
C11_StartsRegardless ==
    (Len(calls') = Len(calls) + 1 /\ Triggering(calls'[Len(calls')])) =>
        /\ Len(fetches') = Len(fetches) + 1
        /\ fetches'[Len(fetches')].result = "pending"
        /\ tasks'[fetches'[Len(fetches')].task].call = Len(calls')

\* a step never changes what a fetch call carries, and a step that changes
\* one fetch call or notification leaves every other one as it was
C11_Separate ==
    /\ \A i \in 1..Len(fetches) :
          /\ i <= Len(fetches')
          /\ fetches'[i].task = fetches[i].task
          /\ fetches'[i].input = fetches[i].input
          /\ fetches'[i].init = fetches[i].init
    /\ \A i \in 1..Len(fetches) : \A j \in 1..Len(fetches) :
          (i # j /\ fetches'[i] # fetches[i]) =>
              /\ fetches'[j] = fetches[j]
              /\ tasks'[fetches[j].task] = tasks[fetches[j].task]
    /\ \A t \in 1..Len(tasks) : \A u \in 1..Len(tasks) :
          (t # u /\ tasks'[t] # tasks[t]) => tasks'[u] = tasks[u]

\* C11: notifications in flight are independent: in every state any pending
\* transmission can complete, with any outcome, whatever the others are
\* doing (so completions come in any order); a new event starts its
\* transmission while earlier ones are pending; and no step changes the
\* payload or the outcome of a notification other than the one it settles.
C11_InFlightIndependent ==
    []C11_NoCoordination /\ [][C11_StartsRegardless /\ C11_Separate]_vars

\* C11 witness: two notifications were in flight together and the one sent
\* second was rejected while the first is still pending.
C11_Witness ==
    /\ Len(fetches) = 2
    /\ fetches[1].result = "pending"
    /\ fetches[2].result = "response" /\ fetches[2].status = 404
    /\ tasks[fetches[1].task].pc = "await_fetch"
    /\ Len(console) = 1

\* C12: events are not deduplicated: when an allowed request-observation
\* event and a download-determination event for the same url have both been
\* handled, in either order, each has its own single transmission attempt,
\* the first carrying the last segment of the url and the second the name
\* the host suggested.
C12_NoDeduplication ==
    \A k \in 1..Len(calls) : \A m \in 1..Len(calls) :
        (/\ calls[k].listener = "onBeforeRequest"
         /\ calls[k].event.type \in {"xmlhttprequest", "main_frame"}
         /\ calls[m].listener = "onDeterminingFilename"
         /\ calls[m].event.url = calls[k].event.url) =>
            /\ Cardinality(AttemptsOf(k)) = 1
            /\ Cardinality(AttemptsOf(m)) = 1
            /\ AttemptsOf(k) \cap AttemptsOf(m) = {}
            /\ \A i \in AttemptsOf(k) :
                  /\ Payload(fetches[i].init.body).url = calls[k].event.url
                  /\ Payload(fetches[i].init.body).filename
                        = AfterLast(calls[k].event.url, "/")
            /\ \A i \in AttemptsOf(m) :
                  /\ Payload(fetches[i].init.body).url = calls[m].event.url
                  /\ Payload(fetches[i].init.body).filename = calls[m].event.filename

\* C12 witness: the page load of the report and then its download, named
\* "report (1).pdf" by the host, have both been relayed, with different
\* filenames for the same url.
C12_Witness ==
    /\ Len(calls) = 2 /\ Len(fetches) = 2
    /\ calls[1].listener = "onBeforeRequest" /\ calls[1].event.type = "main_frame"
    /\ calls[2].listener = "onDeterminingFilename"
    /\ calls[1].event.url = UrlReport /\ calls[2].event.url = UrlReport
    /\ Payload(fetches[1].init.body).filename = NameReport
    /\ Payload(fetches[2].init.body).filename = NameReportCopy

\* the console entries written for notification t
EntriesOf(t) == {e \in 1..Len(console) : console[e].task = t}

\* a notification has one console entry when its fetch failed (the plain
\* message after a status that is not ok, the message with the error after a
\* transport failure) and none while it is pending or after an ok response;
\* the console holds nothing else
C13_LogIffFailed ==
    /\ \A i \in 1..Len(fetches) :
          LET t == fetches[i].task
          IN  /\ FetchFailed(fetches[i]) =>
                    /\ Cardinality(EntriesOf(t)) = 1
                    /\ \A e \in EntriesOf(t) :
                          console[e].error = (fetches[i].result = "error")
              /\ ~FetchFailed(fetches[i]) => EntriesOf(t) = {}
    /\ Len(console) =
          Cardinality({i \in 1..Len(fetches) : FetchFailed(fetches[i])})

\* a step in which a fetch fails writes one console entry, ends the
\* invocation with a fulfilled promise, and changes nothing else
C13_OnlyLogs ==
    \A i \in 1..Len(fetches) :
        (~FetchFailed(fetches[i]) /\ i <= Len(fetches') /\ FetchFailed(fetches'[i])) =>
            /\ Len(console') = Len(console) + 1
            /\ calls' = calls
            /\ Len(fetches') = Len(fetches)
            /\ Len(tasks') = Len(tasks)
            /\ \A j \in 1..Len(fetches) : j # i => fetches'[j] = fetches[j]
            /\ \A u \in 1..Len(tasks) : u # fetches[i].task => tasks'[u] = tasks[u]
            /\ tasks'[fetches[i].task].promise = "fulfilled"
            /\ tasks'[fetches[i].task].url = tasks[fetches[i].task].url
            /\ tasks'[fetches[i].task].filename = tasks[fetches[i].task].filename

\* C13: a console entry is written for a notification if and only if its
\* transmission failed: one entry after a status that is not successful, one
\* after a transport failure, none after a successful status; and the entry
\* is all a failure causes.
C13_LoggedIffFailed == []C13_LogIffFailed /\ [][C13_OnlyLogs]_vars

\* C13 witness: the first notification was answered 200 and left no entry;
\* the second failed at the transport level and left the only entry.
C13_Witness ==
    /\ Len(fetches) = 2
    /\ fetches[1].result = "response" /\ fetches[1].status = 200
    /\ fetches[2].result = "error"
    /\ Len(console) = 1 /\ console[1].error /\ console[1].task = fetches[2].task

\* the notification an event calls for, from the listener and the fields of
\* the event and nothing else
NotificationFor(call) ==
    [ type     |-> <<"d","o","w","n","l","o","a","d">>,
      url      |-> call.event.url,
      filename |-> IF call.listener = "onDeterminingFilename"
                   THEN call.event.filename
                   ELSE AfterLast(call.event.url, "/") ]

\* C14: the relay carries no state between events: the payload of every
\* transmission is the notification its own event calls for, a function of
\* that event's fields alone, so it is the same after any history of
\* earlier events and outcomes; and two events with the same fields handled
\* at different points of one run are sent with identical requests.
C14_PayloadFromEventOnly ==
    /\ \A i \in 1..Len(fetches) :
          Payload(fetches[i].init.body)
              = NotificationFor(calls[tasks[fetches[i].task].call])
    /\ \A i \in 1..Len(fetches) : \A j \in 1..Len(fetches) :
          LET ci == calls[tasks[fetches[i].task].call]
              cj == calls[tasks[fetches[j].task].call]
          IN  (ci.listener = cj.listener /\ ci.event = cj.event) =>
                  /\ fetches[i].input = fetches[j].input
                  /\ fetches[i].init = fetches[j].init

\* C14 witness: the same download event was handled twice, the second time
\* after the transmission of the first had been rejected, and both requests
\* are identical.
C14_Witness ==
    /\ Len(calls) = 2 /\ Len(fetches) = 2
    /\ calls[1].listener = "onDeterminingFilename"
    /\ calls[2].listener = "onDeterminingFilename"
    /\ calls[1].event = calls[2].event
    /\ calls[1].event.filename = NameReportCopy
    /\ tasks[1].outcome = "not_ok"
    /\ fetches[1].init = fetches[2].init

\* s ends with t
IsSuffix(t, s) ==
    /\ Len(t) <= Len(s)
    /\ \A n \in 1..Len(t) : s[Len(s) - Len(t) + n] = t[n]

\* C15: on the request-observation path the filename sent never contains
\* '/' and is a suffix of the url sent in the same transmission.
C15_FilenameSlashFreeSuffix ==
    \A i \in 1..Len(fetches) :
        LET sent == Payload(fetches[i].init.body)
        IN  calls[tasks[fetches[i].task].call].listener = "onBeforeRequest" =>
                /\ \A n \in 1..Len(sent.filename) : sent.filename[n] # "/"
                /\ IsSuffix(sent.filename, sent.url)

\* C15 witness: a generated url with '/' inside its generated part was sent
\* with the non-empty name that follows it.
C15_Witness ==
    /\ Len(fetches) = 1
    /\ calls[1].listener = "onBeforeRequest"
    /\ Payload(fetches[1].init.body).url = UrlRoot \o <<"a", "/", ".">>
    /\ Payload(fetches[1].init.body).filename = <<".">>

====
